---- MODULE Spec2Model ----
(***************************************************************************)
(* Model of the `interruptable` crate (src/src/lib.rs): a decorator around *)
(* an inner byte stream that samples a shared AtomicBool before            *)
(* delegating (read / write / flush) and again after an inner failure of   *)
(* kind Interrupted (check_again).                                         *)
(*                                                                         *)
(* Atomicity: one step per access to the shared flag and one per inner     *)
(* stream invocation / return, so that the external owner of the flag can  *)
(* act between any two of them.                                            *)
(***************************************************************************)
EXTENDS Naturals, Sequences, FiniteSets

\* ------------------------------------------------------------------ bounds
MaxBuf == 1        \* buffer lengths passed to read/write are 0..MaxBuf
MaxCalls == 2      \* calls per decorator are counted up to MaxCalls
MaxLeak == 2       \* inner invocations under a set flag are counted up to MaxLeak

\* --------------------------------------------------------------- instances
Insts == {1, 2}    \* decorator instances that may share the flag
Solo == {1}        \* the instance driven by the single-decorator specs

Ops == {"read", "write", "flush"}

VARIABLES
    flag,          \* the shared AtomicBool
    pc,            \* pc[d]: position of the thread using decorator d
    op,            \* op[d]: operation of the current call
    buflen,        \* buflen[d]: buf.len() of the current call
    samples,       \* samples[d]: values loaded from the flag in this call
    innerCalls,    \* innerCalls[d]: inner invocations made by this call
    innerRes,      \* innerRes[d]: what the inner operation returned
    result,        \* result[d]: what the decorator's call returned
    dasCalls,      \* dasCalls[d]: das_error() invocations made by this call
    ncalls,        \* ncalls[d]: calls started on d, counted up to MaxCalls
    setInFlight,   \* setInFlight[d]: flag was stored true during inner op
    lowSinceCall,  \* lowSinceCall[d]: flag was false at/after call start
    retried,       \* retried[d]: this call was started by the retry loop
    prev,          \* prev[d]: how the previous call on d ended
    leaked         \* leaked[d]: inner invocations begun since the flag is set

vars == <<flag, pc, op, buflen, samples, innerCalls, innerRes, result,
          dasCalls, ncalls, setInFlight, lowSinceCall, retried, prev, leaked>>

\* ------------------------------------------------------- io::Result values
NoRes == [tag |-> "None"]
Ok(n) == [tag |-> "Ok", val |-> n]
OkUnit == [tag |-> "OkUnit"]
Err(k, c) == [tag |-> "Err", kind |-> k, cause |-> c]

IsErr(r) == r.tag = "Err"
IsOk(r) == r.tag \in {"Ok", "OkUnit"}
IsInterrupted(r) == IsErr(r) /\ r.kind = "Interrupted"

\* io::Error::from(kind): no cause attached
ErrFrom(k) == Err(k, "None")

\* Failures an inner stream can produce.  The last one is what a nested
\* Interruptable (or any stream using io::Error::new(Other, ..)) returns.
InnerErrors ==
    { ErrFrom("Interrupted"), ErrFrom("BrokenPipe"), ErrFrom("UnexpectedEof"),
      Err("Other", "Interrupted") }

\* Results of the inner operation o for a buffer of length n.
InnerResults(o, n) ==
    (IF o = "flush" THEN {OkUnit} ELSE {Ok(m) : m \in 0..n}) \cup InnerErrors

\* ------------------------------------------------------------- Interruptable
\* faulty variant: a load that never observes the store
LoadStale == FALSE
\* self.interrupt_flag.as_ref().load(Ordering::SeqCst)
Load == flag

\* faulty variant: the plain Interrupted error, unwrapped
das_errorPlain == ErrFrom("Interrupted")
das_error == Err("Other", ErrFrom("Interrupted").kind)

\* faulty variant: the post-check is missing
reclassifiesNever(e, f) == FALSE
\* faulty variant: the post-check ignores the flag
reclassifiesAlways(e, f) == e.kind = "Interrupted"
\* faulty variant: the post-check ignores the error kind
reclassifiesAnyKind(e, f) == f
\* the condition of check_again
reclassifies(e, f) == e.kind = "Interrupted" /\ f

\* faulty variant: every inner error is replaced
check_againAll(e, f) == das_error
check_again(e, f) == IF reclassifies(e, f) THEN das_error ELSE e

Bump(n) == IF n < MaxCalls THEN n + 1 ELSE n

Init ==
    /\ flag \in BOOLEAN
    /\ pc = [d \in Insts |-> "unbuilt"]
    /\ op = [d \in Insts |-> "read"]
    /\ buflen = [d \in Insts |-> 0]
    /\ samples = [d \in Insts |-> << >>]
    /\ innerCalls = [d \in Insts |-> 0]
    /\ innerRes = [d \in Insts |-> NoRes]
    /\ result = [d \in Insts |-> NoRes]
    /\ dasCalls = [d \in Insts |-> 0]
    /\ ncalls = [d \in Insts |-> 0]
    /\ setInFlight = [d \in Insts |-> FALSE]
    /\ lowSinceCall = [d \in Insts |-> FALSE]
    /\ retried = [d \in Insts |-> FALSE]
    /\ prev = [d \in Insts |-> "none"]
    /\ leaked = [d \in Insts |-> 0]

\* Interruptable::new: stores the stream and the flag handle.
New(d) ==
    /\ pc[d] = "unbuilt"
    /\ pc' = [pc EXCEPT ![d] = "idle"]
    /\ UNCHANGED <<flag, op, buflen, samples, innerCalls, innerRes, result,
                   dasCalls, ncalls, setInFlight, lowSinceCall, retried, prev, leaked>>

\* How the call that d has just finished ended (none before the first call).
Ended(d) ==
    IF pc[d] # "done" THEN "none"
    ELSE IF dasCalls[d] > 0 THEN "flagged"
    ELSE IF IsErr(result[d]) THEN "err"
    ELSE IF setInFlight[d] THEN "okInFlight"
    ELSE "ok"

\* Entry of read / write / flush with a buffer of length n.
Enter(d, o, n, again) ==
    /\ pc' = [pc EXCEPT ![d] = "precheck"]
    /\ op' = [op EXCEPT ![d] = o]
    /\ buflen' = [buflen EXCEPT ![d] = n]
    /\ samples' = [samples EXCEPT ![d] = << >>]
    /\ innerCalls' = [innerCalls EXCEPT ![d] = 0]
    /\ innerRes' = [innerRes EXCEPT ![d] = NoRes]
    /\ result' = [result EXCEPT ![d] = NoRes]
    /\ dasCalls' = [dasCalls EXCEPT ![d] = 0]
    /\ ncalls' = [ncalls EXCEPT ![d] = Bump(ncalls[d])]
    /\ setInFlight' = [setInFlight EXCEPT ![d] = FALSE]
    /\ lowSinceCall' = [lowSinceCall EXCEPT ![d] = ~flag]
    /\ retried' = [retried EXCEPT ![d] = again]
    /\ prev' = [prev EXCEPT ![d] = Ended(d)]
    /\ UNCHANGED <<flag, leaked>>

\* The caller invokes read, write or flush on the decorator.
Call(d) ==
    /\ pc[d] \in {"idle", "done"}
    /\ \E o \in Ops : \E n \in 0..MaxBuf :
          Enter(d, o, IF o = "flush" THEN 0 ELSE n, FALSE)

\* The caller's retry-on-Interrupted loop repeats the same call.
Retry(d) ==
    /\ pc[d] = "done"
    /\ IsInterrupted(result[d])
    /\ Enter(d, op[d], buflen[d], TRUE)

\* faulty variant: the pre-check consumes the flag (swap instead of load)
PreCheckSwap(d) ==
    /\ pc[d] = "precheck"
    /\ samples' = [samples EXCEPT ![d] = <<Load>>]
    /\ flag' = FALSE
    /\ IF Load
         THEN /\ result' = [result EXCEPT ![d] = das_error]
              /\ dasCalls' = [dasCalls EXCEPT ![d] = @ + 1]
              /\ pc' = [pc EXCEPT ![d] = "done"]
         ELSE /\ pc' = [pc EXCEPT ![d] = "delegate"]
              /\ UNCHANGED <<result, dasCalls>>
    /\ UNCHANGED <<op, buflen, innerCalls, innerRes, ncalls,
                   setInFlight, lowSinceCall, retried, prev, leaked>>

\* faulty variant: the pre-check is skipped on a retried call
PreCheckFirstOnly(d) ==
    /\ pc[d] = "precheck"
    /\ samples' = [samples EXCEPT ![d] = <<Load>>]
    /\ IF Load /\ ~retried[d]
         THEN /\ result' = [result EXCEPT ![d] = das_error]
              /\ dasCalls' = [dasCalls EXCEPT ![d] = @ + 1]
              /\ pc' = [pc EXCEPT ![d] = "done"]
         ELSE /\ pc' = [pc EXCEPT ![d] = "delegate"]
              /\ UNCHANGED <<result, dasCalls>>
    /\ UNCHANGED <<flag, op, buflen, innerCalls, innerRes, ncalls,
                   setInFlight, lowSinceCall, retried, prev, leaked>>

\* faulty variant: the pre-check result is ignored
PreCheckSkip(d) ==
    /\ pc[d] = "precheck"
    /\ samples' = [samples EXCEPT ![d] = <<Load>>]
    /\ pc' = [pc EXCEPT ![d] = "delegate"]
    /\ UNCHANGED <<flag, op, buflen, innerCalls, innerRes, result, dasCalls,
                   ncalls, setInFlight, lowSinceCall, retried, prev, leaked>>

\* faulty variant: a reported interruption latches the decorator
PreCheckLatched(d) ==
    /\ pc[d] = "precheck"
    /\ samples' = [samples EXCEPT ![d] = <<Load>>]
    /\ IF Load \/ prev[d] = "flagged"
         THEN /\ result' = [result EXCEPT ![d] = das_error]
              /\ dasCalls' = [dasCalls EXCEPT ![d] = @ + 1]
              /\ pc' = [pc EXCEPT ![d] = "done"]
         ELSE /\ pc' = [pc EXCEPT ![d] = "delegate"]
              /\ UNCHANGED <<result, dasCalls>>
    /\ UNCHANGED <<flag, op, buflen, innerCalls, innerRes, ncalls,
                   setInFlight, lowSinceCall, retried, prev, leaked>>

\* `if self.interrupt_flag.as_ref().load(SeqCst) { Err(Self::das_error()) }`
\* else: go on to the inner operation.
PreCheck(d) ==
    /\ pc[d] = "precheck"
    /\ samples' = [samples EXCEPT ![d] = <<Load>>]
    /\ IF Load
         THEN /\ result' = [result EXCEPT ![d] = das_error]
              /\ dasCalls' = [dasCalls EXCEPT ![d] = @ + 1]
              /\ pc' = [pc EXCEPT ![d] = "done"]
         ELSE /\ pc' = [pc EXCEPT ![d] = "delegate"]
              /\ UNCHANGED <<result, dasCalls>>
    /\ UNCHANGED <<flag, op, buflen, innerCalls, innerRes, ncalls,
                   setInFlight, lowSinceCall, retried, prev, leaked>>

\* `self.inner.read(buf)` / `.write(buf)` / `.flush()` is entered.
InnerInvoke(d) ==
    /\ pc[d] = "delegate"
    /\ pc' = [pc EXCEPT ![d] = "inflight"]
    /\ innerCalls' = [innerCalls EXCEPT ![d] = @ + 1]
    /\ leaked' = [leaked EXCEPT ![d] = IF flag /\ @ < MaxLeak THEN @ + 1 ELSE @]
    /\ UNCHANGED <<flag, op, buflen, samples, innerRes, result, dasCalls,
                   ncalls, setInFlight, lowSinceCall, retried, prev>>

\* The inner stream stores true into the flag it was handed (Mock::read).
InnerStore(d) ==
    /\ pc[d] = "inflight"
    /\ ~flag
    /\ flag' = TRUE
    /\ setInFlight' = [e \in Insts |-> setInFlight[e] \/ pc[e] = "inflight"]
    /\ leaked' = [e \in Insts |-> 0]
    /\ UNCHANGED <<pc, op, buflen, samples, innerCalls, innerRes, result,
                   dasCalls, ncalls, lowSinceCall, retried, prev>>

\* faulty variant: a success reports buf.len() instead of the inner count
InnerReturnLen(d) ==
    /\ pc[d] = "inflight"
    /\ \E r \in InnerResults(op[d], buflen[d]) :
          /\ innerRes' = [innerRes EXCEPT ![d] = r]
          /\ IF IsErr(r)
               THEN /\ pc' = [pc EXCEPT ![d] = "check_again"]
                    /\ UNCHANGED result
               ELSE /\ pc' = [pc EXCEPT ![d] = "done"]
                    /\ result' = [result EXCEPT ![d] =
                                    IF r.tag = "Ok" THEN Ok(buflen[d]) ELSE r]
    /\ UNCHANGED <<flag, op, buflen, samples, innerCalls, dasCalls, ncalls,
                   setInFlight, lowSinceCall, retried, prev, leaked>>

\* faulty variant: a success is replaced when the flag is set on return
InnerReturnRecheck(d) ==
    /\ pc[d] = "inflight"
    /\ \E r \in InnerResults(op[d], buflen[d]) :
          /\ innerRes' = [innerRes EXCEPT ![d] = r]
          /\ IF IsErr(r)
               THEN /\ pc' = [pc EXCEPT ![d] = "check_again"]
                    /\ UNCHANGED <<result, dasCalls>>
               ELSE /\ pc' = [pc EXCEPT ![d] = "done"]
                    /\ result' = [result EXCEPT ![d] =
                                    IF Load THEN das_error ELSE r]
                    /\ dasCalls' = [dasCalls EXCEPT ![d] =
                                    IF Load THEN @ + 1 ELSE @]
    /\ UNCHANGED <<flag, op, buflen, samples, innerCalls, ncalls,
                   setInFlight, lowSinceCall, retried, prev, leaked>>

\* The inner operation returns; `map_err` leaves a success untouched.
InnerReturn(d) ==
    /\ pc[d] = "inflight"
    /\ \E r \in InnerResults(op[d], buflen[d]) :
          /\ innerRes' = [innerRes EXCEPT ![d] = r]
          /\ IF IsErr(r)
               THEN /\ pc' = [pc EXCEPT ![d] = "check_again"]
                    /\ UNCHANGED result
               ELSE /\ pc' = [pc EXCEPT ![d] = "done"]
                    /\ result' = [result EXCEPT ![d] = r]
    /\ UNCHANGED <<flag, op, buflen, samples, innerCalls, dasCalls, ncalls,
                   setInFlight, lowSinceCall, retried, prev, leaked>>

\* faulty variant: an ordinary interruption is retried inside the decorator
CheckAgainRetry(d) ==
    /\ pc[d] = "check_again"
    /\ LET e == innerRes[d]
           loads == e.kind = "Interrupted"
           f == Load
       IN  /\ samples' = [samples EXCEPT ![d] =
                            IF loads THEN Append(@, f) ELSE @]
           /\ result' = [result EXCEPT ![d] =
                            IF loads /\ ~f THEN @ ELSE check_again(e, f)]
           /\ dasCalls' = [dasCalls EXCEPT ![d] =
                            IF reclassifies(e, f) THEN @ + 1 ELSE @]
           /\ pc' = [pc EXCEPT ![d] = IF loads /\ ~f THEN "delegate" ELSE "done"]
    /\ UNCHANGED <<flag, op, buflen, innerCalls, innerRes, ncalls,
                   setInFlight, lowSinceCall, retried, prev, leaked>>

\* faulty variant: flush reclassifies without looking at the loaded flag
CheckAgainFlushDiffers(d) ==
    /\ pc[d] = "check_again"
    /\ LET e == innerRes[d]
           loads == e.kind = "Interrupted"
           f == Load
           g == IF op[d] = "flush" THEN TRUE ELSE f
       IN  /\ samples' = [samples EXCEPT ![d] =
                            IF loads THEN Append(@, f) ELSE @]
           /\ result' = [result EXCEPT ![d] = check_again(e, g)]
           /\ dasCalls' = [dasCalls EXCEPT ![d] =
                            IF reclassifies(e, g) THEN @ + 1 ELSE @]
    /\ pc' = [pc EXCEPT ![d] = "done"]
    /\ UNCHANGED <<flag, op, buflen, innerCalls, innerRes, ncalls,
                   setInFlight, lowSinceCall, retried, prev, leaked>>

\* faulty variant: the post-check consumes the flag (swap instead of load)
CheckAgainSwap(d) ==
    /\ pc[d] = "check_again"
    /\ LET e == innerRes[d]
           loads == e.kind = "Interrupted"
           f == Load
       IN  /\ samples' = [samples EXCEPT ![d] =
                            IF loads THEN Append(@, f) ELSE @]
           /\ flag' = (IF loads THEN FALSE ELSE flag)
           /\ result' = [result EXCEPT ![d] = check_again(e, f)]
           /\ dasCalls' = [dasCalls EXCEPT ![d] =
                            IF reclassifies(e, f) THEN @ + 1 ELSE @]
    /\ pc' = [pc EXCEPT ![d] = "done"]
    /\ UNCHANGED <<op, buflen, innerCalls, innerRes, ncalls,
                   setInFlight, lowSinceCall, retried, prev, leaked>>

\* faulty variant: the flag is loaded before the error kind is tested
CheckAgainEager(d) ==
    /\ pc[d] = "check_again"
    /\ LET e == innerRes[d]
           f == Load
       IN  /\ samples' = [samples EXCEPT ![d] = Append(@, f)]
           /\ result' = [result EXCEPT ![d] = check_again(e, f)]
           /\ dasCalls' = [dasCalls EXCEPT ![d] =
                            IF reclassifies(e, f) THEN @ + 1 ELSE @]
    /\ pc' = [pc EXCEPT ![d] = "done"]
    /\ UNCHANGED <<flag, op, buflen, innerCalls, innerRes, ncalls,
                   setInFlight, lowSinceCall, retried, prev, leaked>>

\* `.map_err(|e| self.check_again(e))`: the flag is loaded only when the
\* left operand of && holds.
CheckAgain(d) ==
    /\ pc[d] = "check_again"
    /\ LET e == innerRes[d]
           loads == e.kind = "Interrupted"
           f == Load
       IN  /\ samples' = [samples EXCEPT ![d] =
                            IF loads THEN Append(@, f) ELSE @]
           /\ result' = [result EXCEPT ![d] = check_again(e, f)]
           /\ dasCalls' = [dasCalls EXCEPT ![d] =
                            IF reclassifies(e, f) THEN @ + 1 ELSE @]
    /\ pc' = [pc EXCEPT ![d] = "done"]
    /\ UNCHANGED <<flag, op, buflen, innerCalls, innerRes, ncalls,
                   setInFlight, lowSinceCall, retried, prev, leaked>>

\* The external owner of the flag: `flag.store(true, Ordering::SeqCst)`.
ControllerSet ==
    /\ ~flag
    /\ flag' = TRUE
    /\ setInFlight' = [e \in Insts |-> setInFlight[e] \/ pc[e] = "inflight"]
    /\ leaked' = [e \in Insts |-> 0]
    /\ UNCHANGED <<pc, op, buflen, samples, innerCalls, innerRes, result,
                   dasCalls, ncalls, lowSinceCall, retried, prev>>

\* The external owner clears the flag again.
ControllerClear ==
    /\ flag
    /\ flag' = FALSE
    /\ lowSinceCall' = [e \in Insts |-> TRUE]
    /\ leaked' = [e \in Insts |-> 0]
    /\ UNCHANGED <<pc, op, buflen, samples, innerCalls, innerRes, result,
                   dasCalls, ncalls, setInFlight, retried, prev>>

\* One step of the thread that uses decorator d.
Step(d) ==
    \/ New(d)
    \/ Call(d)
    \/ Retry(d)
    \/ PreCheck(d)
    \/ InnerInvoke(d)
    \/ InnerStore(d)
    \/ InnerReturn(d)
    \/ CheckAgain(d)

Next ==
    \/ \E d \in Solo : Step(d)
    \/ ControllerSet
    \/ ControllerClear

Spec == Init /\ [][Next]_vars

\* ------------------------------------------------------- retry-loop system
\* The caller runs one retry-on-Interrupted loop over the decorator; the
\* external controller sets the flag and never clears it.
StartLoop(d) ==
    /\ pc[d] = "idle"
    /\ Call(d)

LoopStep(d) ==
    \/ New(d)
    \/ StartLoop(d)
    \/ Retry(d)
    \/ PreCheck(d)
    \/ InnerInvoke(d)
    \/ InnerReturn(d)
    \/ CheckAgain(d)

LiveNext ==
    \/ \E d \in Solo : LoopStep(d)
    \/ \E d \in Solo : InnerStore(d)
    \/ ControllerSet

\* The calling thread keeps running and every inner call returns.
LiveSpec == Init /\ [][LiveNext]_vars /\ WF_vars(\E d \in Solo : LoopStep(d))

\* ---------------------------------------------------- two-decorator system
\* Two decorators over distinct inner streams share the flag; each is used
\* by its own thread, and the steps of the two threads interleave freely.
\* The controller sets the flag and leaves it set.
DuoStep(d) ==
    \/ New(d)
    \/ Call(d)
    \/ PreCheck(d)
    \/ InnerInvoke(d)
    \/ InnerStore(d)
    \/ InnerReturn(d)
    \/ CheckAgain(d)

DuoNext ==
    \/ \E d \in Insts : DuoStep(d)
    \/ ControllerSet

DuoSpec == Init /\ [][DuoNext]_vars

\* ----------------------------------------------------------------- helpers
\* What read / write / flush return for the flag values s they sampled and
\* the inner result r (r is not used when the pre-check sample is true).
Outcome(s, r) ==
    IF s[1] THEN Err("Other", "Interrupted")
    ELSE IF IsInterrupted(r) /\ s[Len(s)] THEN Err("Other", "Interrupted")
    ELSE r
InCall(d) == pc[d] \in {"precheck", "delegate", "inflight", "check_again", "done"}
Done(d) == pc[d] = "done"
Sampled(d, b) == \E i \in 1..Len(samples[d]) : samples[d][i] = b
LoopOver(d) == Done(d) /\ ~IsInterrupted(result[d])

\* Class of an inner result.
InnerClass(r) ==
    IF IsOk(r) THEN "ok"
    ELSE IF IsInterrupted(r) THEN "interrupted"
    ELSE IF IsErr(r) THEN "error"
    ELSE "none"

\* Class of the outcome of the call d has finished.
OutcomeClass(d) ==
    IF dasCalls[d] > 0 THEN "flagged"
    ELSE IF IsOk(result[d]) /\ result[d] = innerRes[d] THEN "success"
    ELSE IF IsErr(result[d]) /\ result[d] = innerRes[d] THEN "error"
    ELSE "other"

\* ------------------------------------------------------------------ claims

\* C1: when the pre-check of a read, write or flush samples the flag as
\* true, the inner operation is not invoked during that call, the flag is
\* not sampled again, and the call returns exactly das_error(): kind Other
\* wrapping an Interrupted cause.
C1_PreCheckShortCircuit ==
    \A d \in Insts :
        (InCall(d) /\ Len(samples[d]) >= 1 /\ samples[d][1] = TRUE) =>
            /\ Done(d)
            /\ innerCalls[d] = 0
            /\ innerRes[d] = NoRes
            /\ samples[d] = <<TRUE>>
            /\ result[d] = Err("Other", "Interrupted")

C1_Witness ==
    \E d \in Insts :
        /\ Done(d) /\ op[d] = "flush" /\ samples[d] = <<TRUE>>
        /\ innerCalls[d] = 0 /\ result[d] = Err("Other", "Interrupted")

C3_OrdinaryInterruptPassthrough ==
    \A d \in Insts :
        (Done(d) /\ IsInterrupted(innerRes[d]) /\ Len(samples[d]) = 2
                 /\ samples[d][2] = FALSE) =>
            /\ result[d] = innerRes[d]
            /\ result[d].kind = "Interrupted"
            /\ ENABLED Retry(d)

C3_Witness ==
    \E d \in Insts :
        /\ Done(d) /\ retried[d] /\ samples[d] = <<FALSE, FALSE>>
        /\ innerRes[d] = ErrFrom("Interrupted")
        /\ result[d] = ErrFrom("Interrupted")

\* C4: an inner failure whose kind is not Interrupted is returned unchanged
\* whatever the flag holds, also when the flag was set while the inner
\* operation was in flight.
C4_UnrelatedErrorPassthrough ==
    \A d \in Insts :
        (Done(d) /\ IsErr(innerRes[d]) /\ innerRes[d].kind # "Interrupted") =>
            /\ result[d] = innerRes[d]
            /\ dasCalls[d] = 0

C4_Witness ==
    \E d \in Insts :
        /\ Done(d) /\ flag /\ setInFlight[d]
        /\ innerRes[d] = ErrFrom("BrokenPipe")
        /\ result[d] = ErrFrom("BrokenPipe")

\* C5: when the pre-check sampled false and the inner operation succeeded,
\* the call returns the inner result (byte count, or unit for flush) exactly.
C5_SuccessPassthrough ==
    \A d \in Insts :
        (Done(d) /\ Len(samples[d]) >= 1 /\ samples[d][1] = FALSE
                 /\ IsOk(innerRes[d])) =>
            result[d] = innerRes[d]

C5_Witness ==
    \E d \in Insts :
        /\ Done(d) /\ op[d] = "read" /\ buflen[d] = MaxBuf
        /\ samples[d] = <<FALSE>> /\ innerRes[d] = Ok(0) /\ result[d] = Ok(0)

\* C6: whenever the decorator built its flag-triggered error, the returned
\* error has a kind other than Interrupted and carries Interrupted as its
\* cause, and the caller's retry-on-Interrupted loop cannot retry it.
C6_ErrorDistinctness ==
    \A d \in Insts :
        (Done(d) /\ dasCalls[d] > 0) =>
            /\ IsErr(result[d])
            /\ result[d].kind # "Interrupted"
            /\ result[d].cause = "Interrupted"
            /\ ~ ENABLED Retry(d)

C6_Witness ==
    \E d \in Insts :
        /\ Done(d) /\ dasCalls[d] = 1 /\ retried[d]
        /\ result[d].kind = "Other" /\ result[d].cause = "Interrupted"

\* C7: the decorator builds the flag-triggered error only in a call that
\* sampled the flag as true; a finished call whose samples were all false
\* returns the inner stream's own result and built no flag-triggered error.
C7_NoFalseCancellation ==
    \A d \in Insts :
        /\ (InCall(d) /\ dasCalls[d] > 0) => Sampled(d, TRUE)
        /\ (Done(d) /\ ~Sampled(d, TRUE)) =>
              /\ innerRes[d] # NoRes
              /\ result[d] = innerRes[d]
              /\ dasCalls[d] = 0

C7_Witness ==
    \E d \in Insts :
        /\ Done(d) /\ samples[d] = <<FALSE, FALSE>> /\ setInFlight[d]
        /\ result[d] = innerRes[d] /\ dasCalls[d] = 0

\* C8: construction and every step of read, write and flush leave the flag
\* as it was: the flag changes only in a step of its external owner or of
\* the inner stream.
C8_DecoratorOnlyReadsFlag ==
    [][ (flag' # flag) =>
           (ControllerSet \/ ControllerClear \/ \E d \in Insts : InnerStore(d))
      ]_vars

C8_Witness ==
    \E d \in Insts :
        /\ Done(d) /\ flag /\ ncalls[d] = MaxCalls
        /\ samples[d] = <<TRUE>> /\ ~lowSinceCall[d]

\* C9: a call that started with the flag set, while the flag has not been
\* cleared since, never reaches the inner operation and finishes with the
\* flag-triggered error; this holds for every repetition of the call.
C9_StickyCancellation ==
    \A d \in Insts :
        (InCall(d) /\ ~lowSinceCall[d]) =>
            /\ flag
            /\ pc[d] \in {"precheck", "done"}
            /\ innerCalls[d] = 0
            /\ Done(d) => /\ result[d] = Err("Other", "Interrupted")
                          /\ samples[d] = <<TRUE>>

C9_Witness ==
    \E d \in Insts :
        /\ Done(d) /\ ~lowSinceCall[d] /\ ncalls[d] = MaxCalls
        /\ innerCalls[d] = 0 /\ result[d] = Err("Other", "Interrupted")

\* C10: in the retry-loop system, once the flag is set (and it stays set)
\* the caller's loop eventually ends with an outcome whose kind is not
\* Interrupted.
C10_InterruptionObserved ==
    \A d \in Solo : flag ~> LoopOver(d)

C10_Witness ==
    \E d \in Solo :
        /\ LoopOver(d) /\ flag /\ retried[d] /\ setInFlight[d] = FALSE
        /\ result[d] = Err("Other", "Interrupted")

\* C11: a call invokes the inner operation at most once: a finished call
\* whose pre-check sampled false invoked it exactly once, one whose pre-check
\* sampled true never did, and an inner Interrupted failure is followed by no
\* second invocation, whatever the flag holds.
C11_SingleDelegation ==
    \A d \in Insts :
        InCall(d) =>
            /\ innerCalls[d] <= 1
            /\ pc[d] \in {"inflight", "check_again"} => innerCalls[d] = 1
            /\ (Done(d) /\ samples[d][1] = FALSE) => innerCalls[d] = 1
            /\ (Done(d) /\ samples[d][1] = TRUE) => innerCalls[d] = 0
            /\ (Done(d) /\ IsInterrupted(innerRes[d])) => innerCalls[d] = 1

C11_Witness ==
    \E d \in Insts :
        /\ Done(d) /\ ~flag /\ innerCalls[d] = 1
        /\ samples[d] = <<FALSE, FALSE>>
        /\ result[d] = ErrFrom("Interrupted")

\* C12: the result of a finished call is a function of the flag values the
\* call sampled and of the inner result alone, whatever the earlier calls
\* returned; in particular a call whose pre-check samples false delegates
\* also right after a call that returned the flag-triggered error.
C12_CallsIndependent ==
    \A d \in Insts :
        Done(d) =>
            /\ result[d] = Outcome(samples[d], innerRes[d])
            /\ innerCalls[d] = (IF samples[d][1] THEN 0 ELSE 1)
            /\ dasCalls[d] = (IF Sampled(d, TRUE) THEN 1 ELSE 0)

C12_Witness ==
    \E d \in Insts :
        /\ Done(d) /\ prev[d] = "flagged" /\ samples[d] = <<FALSE>>
        /\ innerCalls[d] = 1 /\ IsOk(result[d])

\* C13: two finished calls that sampled the same flag values and whose inner
\* operations ended in the same class have outcomes of the same class
\* (success passthrough, error passthrough or flag-triggered error),
\* whichever of read, write and flush each of them is.
C13_SameProtocol ==
    \A d \in Insts : \A e \in Insts :
        (/\ Done(d) /\ Done(e)
         /\ samples[d] = samples[e]
         /\ InnerClass(innerRes[d]) = InnerClass(innerRes[e])) =>
            /\ OutcomeClass(d) = OutcomeClass(e)
            /\ OutcomeClass(d) # "other"

C13_Witness ==
    \E d \in Insts : \E e \in Insts :
        /\ Done(d) /\ Done(e) /\ op[d] = "read" /\ op[e] = "flush"
        /\ samples[d] = <<FALSE, FALSE>> /\ samples[e] = <<FALSE, FALSE>>
        /\ OutcomeClass(d) = "error" /\ OutcomeClass(e) = "error"

\* C14: with two decorators on one flag, each finished call's result is a
\* function of that call's own samples and own inner result, and a call of
\* either decorator that started with the flag set never reaches its inner
\* stream and finishes with the flag-triggered error, wherever the other
\* decorator's thread stands.
C14_SharedFlagNoCoordination ==
    \A d \in Insts : \A e \in Insts \ {d} :
        /\ (Done(d) /\ pc[e] # "unbuilt") =>
              result[d] = Outcome(samples[d], innerRes[d])
        /\ (InCall(d) /\ pc[e] # "unbuilt" /\ ~lowSinceCall[d]) =>
              /\ pc[d] \in {"precheck", "done"}
              /\ innerCalls[d] = 0
              /\ Done(d) => (result[d] = Err("Other", "Interrupted")
                              /\ dasCalls[d] = 1)

C14_Witness ==
    \E d \in Insts : \E e \in Insts \ {d} :
        /\ Done(d) /\ Done(e) /\ flag
        /\ ~lowSinceCall[d] /\ ~lowSinceCall[e]
        /\ prev[d] = "okInFlight" /\ prev[e] = "flagged"
        /\ innerCalls[d] = 0 /\ innerCalls[e] = 0
        /\ result[d] = Err("Other", "Interrupted")
        /\ result[e] = Err("Other", "Interrupted")

\* C15: since the flag was last set, a decorator has begun at most one inner
\* invocation; while the flag stays set after such an invocation, the call
\* that made it had sampled false at its pre-check, and every other call is
\* still at its pre-check or was cut by it.
C15_BoundedLeakage ==
    \A d \in Insts :
        /\ leaked[d] <= 1
        /\ (flag /\ leaked[d] = 1) =>
              /\ pc[d] \in {"precheck", "inflight", "check_again", "done"}
              /\ innerCalls[d] = 1 => (samples[d][1] = FALSE /\ lowSinceCall[d])
              /\ innerCalls[d] = 0 =>
                    (pc[d] = "precheck" \/ (Done(d) /\ samples[d] = <<TRUE>>))

C15_Witness ==
    \E d \in Insts :
        /\ flag /\ leaked[d] = 1 /\ Done(d) /\ ~lowSinceCall[d]
        /\ samples[d] = <<TRUE>> /\ innerCalls[d] = 0

\* C16: a call whose pre-check sampled false and whose inner operation
\* succeeded returns the inner value unchanged although the flag was set in
\* flight, without sampling the flag again; the next call, started with the
\* flag still set, returns the flag-triggered error and invokes nothing.
C16_CompletedIoKept ==
    \A d \in Insts :
        /\ (Done(d) /\ samples[d][1] = FALSE /\ setInFlight[d]
                    /\ IsOk(innerRes[d])) =>
              /\ result[d] = innerRes[d]
              /\ dasCalls[d] = 0
              /\ samples[d] = <<FALSE>>
        /\ (Done(d) /\ prev[d] = "okInFlight" /\ ~lowSinceCall[d]) =>
              /\ result[d] = Err("Other", "Interrupted")
              /\ innerCalls[d] = 0

C16_Witness ==
    \E d \in Insts :
        /\ Done(d) /\ prev[d] = "okInFlight" /\ ~lowSinceCall[d] /\ flag
        /\ result[d] = Err("Other", "Interrupted") /\ innerCalls[d] = 0

\* C17: a call loads the flag once or twice; it loads it a second time
\* exactly when the pre-check sampled false and the inner operation failed
\* with kind Interrupted, never after a success or another failure.
C17_FlagSamplingCount ==
    \A d \in Insts :
        /\ InCall(d) => Len(samples[d]) <= 2
        /\ pc[d] \in {"delegate", "inflight", "check_again"} =>
              samples[d] = <<FALSE>>
        /\ Done(d) =>
              /\ Len(samples[d]) >= 1
              /\ Len(samples[d]) = 2 <=>
                    (samples[d][1] = FALSE /\ IsInterrupted(innerRes[d]))

C17_Witness ==
    \E d \in Insts :
        /\ Done(d) /\ flag /\ samples[d] = <<FALSE>>
        /\ innerRes[d] = ErrFrom("UnexpectedEof")
        /\ result[d] = ErrFrom("UnexpectedEof")

====
